---- MODULE Spec2Model ----
(***************************************************************************)
(* State-machine model of consumer.c: option parsing, startup, the run     *)
(* loop (read -> redisReaderFeed -> redisReaderGetReply -> processMessage),*)
(* the dedup array of consumerState and shutdown(), which is both the      *)
(* SIGINT/SIGTERM handler and the last call of main.                       *)
(***************************************************************************)
EXTENDS Integers, Sequences, FiniteSets, TLC

(* ------------------------------ bounds -------------------------------- *)
\* longest command line explored (number of options)
MaxArgs == 3
\* units (chunks of bytes) one reply frame is made of on the wire
FrameUnits == 2
\* number of reply frames the broker sends while signals may be delivered
MaxFrames == 1
\* number of reply frames the broker sends when no signal is delivered
MaxQuietFrames == 3
\* number of published messages the broker sends while the clock runs
MaxClockFrames == 4
\* last tick of the clock (in ticks of half a second)
MaxClock == 8

(* ------------------------- program constants -------------------------- *)
\* consumer.h:12, scaled down from 10000 so that a full array is reachable
MAX_PROCESSED_MSGS == 2
\* consumer.h:10, scaled down from 1024 bytes to the units of two frames
MESSAGES_BUFFER_SIZE == 4
\* stdlib.h, used at consumer.c:222 and consumer.c:197
EXIT_SUCCESS == 0
EXIT_FAILURE == 1
\* exit status of a process killed by abort(): 128 + SIGABRT
EXIT_ABORTED == 128 + 6
\* seconds of one throughput window and divisor of the printed rate,
\* consumer.c:309-310
REPORT_PERIOD == 3
\* ticks of the wall clock per second: time(NULL) counts whole seconds, the
\* clock runs in half seconds
TicksPerSecond == 2
\* "no exit status yet": the process is alive
Running == 0 - 1

NULL == "NULL"
\* message ids publishers use
Ids == {"a", "b"}
\* a value of the uninitialised Message on the stack that is no published id
Garbage == "garbage"
\* what an uninitialised Message.message_id can hold
StackValues == Ids \cup {Garbage}
NoId == "-"
Signals == {"SIGINT", "SIGTERM"}

\* values atoi(optarg) yields for -g / -c (0 stands for every value <= 0)
OptValues == 0 .. 2
\* one parsed option as getopt_long returns it: '?' is --help and also what
\* getopt_long returns for an unknown option or a missing argument
Options ==
    [opt : {"g", "c"}, val : OptValues]
        \cup [opt : {"h", "p", "v", "?"}, val : {0}]

RECURSIVE SeqsUpTo(_, _)
SeqsUpTo(S, n) ==
    IF n = 0 THEN {<<>>}
    ELSE LET shorter == SeqsUpTo(S, n - 1)
         IN shorter \cup {Append(s, x) : s \in {t \in shorter : Len(t) = n - 1}, x \in S}

\* kinds of reply frame the reader can hand to the run loop:
\*  msg_id      array of >= 3 elements, payload a JSON object with a string message_id
\*  msg_noid    array of >= 3 elements, payload JSON without a string message_id
\*  msg_invalid array of >= 3 elements, payload that json_loads rejects
\*              (no JSON text, or element[2] no string so that str is NULL)
\*  other       any other complete reply (not an array of >= 3 elements)
\*  proto_err   bytes that are no valid reply: redisReaderGetReply returns REDIS_ERR
FrameKinds == {"msg_id", "msg_noid", "msg_invalid", "other", "proto_err"}
FrameChoices ==
    [kind : {"msg_id"}, id : Ids] \cup [kind : FrameKinds \ {"msg_id"}, id : {NoId}]

VARIABLES
    argv,                   \* options not yet returned by getopt_long
    consumer_group_size,    \* main's local
    consumer_id,            \* main's local
    pc,                     \* position of main
    handlers,               \* signal() has installed shutdown for SIGINT/SIGTERM
    c,                      \* main's local redisContext*: NULL or "ctx"
    cerr,                   \* c->err (sticky once set by hiredis)
    global_redis_context,   \* NULL or "ctx"
    reader,                 \* main's local redisReader*: NULL or "reader"
    startup_reply,          \* main's local reply (consumer.c:252, 269), NULL once freed
    global_consumer_state,  \* NULL or "state"
    processed_message_ids,  \* state->processed_message_ids[0 .. count-1]
    wire,                   \* units sent by the broker, not yet read
    arrived,                \* number of frames the broker has sent
    rbuf,                   \* the reader's buffer: units fed and not yet parsed
    reply,                  \* the frame extracted by redisReaderGetReply, or NoFrame
    parsed_message,         \* processMessage's local Message.message_id
    json_msg,               \* processMessage's local json_msg: TRUE iff non-NULL
    shstack,                \* running activations of shutdown(), innermost last
    delivered,              \* signals delivered so far
    exitCode,               \* exit status, Running while alive
    ctxFrees,               \* number of redisFree calls on the context
    stateFrees,             \* number of freeConsumerState calls on the state
    readerFrees,            \* number of redisReaderFree calls
    enteredRunning,         \* history: the run loop was entered
    terminal,               \* history: the condition that ended the run loop
    log,                    \* history: what processMessage did, in order
    start_time,             \* main's local, consumer.c:288
    processed_messages,     \* main's local, consumer.c:289
    clock,                  \* the wall clock, in ticks
    calls,                  \* history: the clock when the monitor was started, then
                            \* the clock at each return of processMessage
    reports                 \* history: the rates printed, with the clock at the printf

vars == <<argv, consumer_group_size, consumer_id, pc, handlers, c, cerr,
          global_redis_context, reader, startup_reply, global_consumer_state,
          processed_message_ids, wire, arrived, rbuf, reply, parsed_message,
          json_msg, shstack, delivered, exitCode, ctxFrees, stateFrees,
          readerFrees, enteredRunning, terminal, log, start_time,
          processed_messages, clock, calls, reports>>

NoFrame == [seq |-> 0, kind |-> "none", id |-> NoId]

Init ==
    /\ argv \in SeqsUpTo(Options, MaxArgs)
    /\ consumer_group_size = -1
    /\ consumer_id = -1
    /\ pc = "getopt"
    /\ handlers = FALSE
    /\ c = NULL
    /\ cerr = 0
    /\ global_redis_context = NULL
    /\ reader = NULL
    /\ startup_reply = NULL
    /\ global_consumer_state = NULL
    /\ processed_message_ids = <<>>
    /\ wire = <<>>
    /\ arrived = 0
    /\ rbuf = <<>>
    /\ reply = NoFrame
    /\ parsed_message = NoId
    /\ json_msg = FALSE
    /\ shstack = <<>>
    /\ delivered = {}
    /\ exitCode = Running
    /\ ctxFrees = 0
    /\ stateFrees = 0
    /\ readerFrees = 0
    /\ enteredRunning = FALSE
    /\ terminal = "none"
    /\ log = <<>>
    /\ start_time = 0
    /\ processed_messages = 0
    /\ clock = 0
    /\ calls = <<>>
    /\ reports = <<>>

\* the throughput monitor of main and its observers
monitorVars == <<start_time, processed_messages, clock, calls, reports>>

\* time(NULL) when the wall clock shows tick t: whole seconds
time(t) == t \div TicksPerSecond

\* difftime(time1, time0): the seconds from time0 to time1
difftime(time1, time0) == time1 - time0

\* mutant: a window is due only after more than the period
ReportDue_Strict(current_time, start) ==
    difftime(current_time, start) > REPORT_PERIOD

\* difftime(current_time, start_time) >= 3, consumer.c:309
ReportDue(current_time, start) ==
    difftime(current_time, start) >= REPORT_PERIOD

\* what main does when processMessage has returned, consumer.c:306-313:
\* processed_messages++, then the window test on time(NULL) and, if due, the
\* printf of processed_messages / 3 and the reset
MonitorThroughput ==
    LET count        == processed_messages + 1
        current_time == time(clock)
    IN /\ calls' = Append(calls, clock)
       /\ IF ReportDue(current_time, start_time)
          THEN /\ reports' = Append(reports, [at |-> clock,
                                              rate |-> count \div REPORT_PERIOD])
               /\ processed_messages' = 0
               /\ start_time' = current_time
          ELSE /\ processed_messages' = count
               /\ UNCHANGED <<reports, start_time>>
       /\ UNCHANGED clock

\* main executes when the process is alive and no shutdown() activation runs
MainAt(p) == exitCode = Running /\ shstack = <<>> /\ pc = p

Exit(code) == exitCode' = code

(* --------------------------- option parsing --------------------------- *)
startupVars == <<c, cerr, global_redis_context, reader, global_consumer_state,
                 handlers, ctxFrees, readerFrees, enteredRunning, startup_reply>>
loopVars == <<processed_message_ids, wire, arrived, rbuf, reply, parsed_message,
              json_msg, terminal, log>>
sigVars == <<shstack, delivered, stateFrees>>

\* one iteration of the getopt_long loop, consumer.c:190-228
ParseOption ==
    /\ MainAt("getopt")
    /\ argv # <<>>
    /\ LET o == Head(argv) IN
       /\ argv' = Tail(argv)
       /\ CASE o.opt = "g" ->
                 /\ consumer_group_size' = o.val
                 /\ consumer_id' = consumer_id
                 /\ IF o.val <= 0
                    THEN Exit(EXIT_FAILURE) /\ pc' = "exited"
                    ELSE UNCHANGED <<exitCode, pc>>
            [] o.opt = "c" ->
                 /\ consumer_id' = o.val
                 /\ consumer_group_size' = consumer_group_size
                 /\ IF o.val <= 0 \/ o.val > consumer_group_size
                    THEN Exit(EXIT_FAILURE) /\ pc' = "exited"
                    ELSE UNCHANGED <<exitCode, pc>>
            [] o.opt = "?" ->
                 /\ Exit(EXIT_SUCCESS) /\ pc' = "exited"
                 /\ UNCHANGED <<consumer_group_size, consumer_id>>
            [] OTHER ->
                 UNCHANGED <<consumer_group_size, consumer_id, exitCode, pc>>
    /\ UNCHANGED startupVars /\ UNCHANGED loopVars /\ UNCHANGED sigVars /\ UNCHANGED monitorVars

\* getopt_long returned -1: the mandatory-option check, consumer.c:230-234
EndOfOptions ==
    /\ MainAt("getopt")
    /\ argv = <<>>
    /\ IF consumer_group_size = -1 \/ consumer_id = -1
       THEN Exit(EXIT_FAILURE) /\ pc' = "exited"
       ELSE pc' = "signal" /\ UNCHANGED exitCode
    /\ UNCHANGED <<argv, consumer_group_size, consumer_id>>
    /\ UNCHANGED startupVars /\ UNCHANGED loopVars /\ UNCHANGED sigVars /\ UNCHANGED monitorVars

(* ------------------------------ startup ------------------------------- *)
argVars == <<argv, consumer_group_size, consumer_id>>

\* signal(SIGINT, shutdown); signal(SIGTERM, shutdown), consumer.c:237-238
InstallHandlers ==
    /\ MainAt("signal")
    /\ handlers' = TRUE
    /\ pc' = "connect"
    /\ UNCHANGED <<c, cerr, global_redis_context, reader, global_consumer_state,
                   ctxFrees, readerFrees, enteredRunning, startup_reply, exitCode>>
    /\ UNCHANGED argVars /\ UNCHANGED loopVars /\ UNCHANGED sigVars /\ UNCHANGED monitorVars

\* redisConnect and its two failure checks, consumer.c:241-248
Connect ==
    /\ MainAt("connect")
    /\ \E r \in {"null", "err", "ok"} :
         CASE r = "null" ->
                /\ Exit(EXIT_FAILURE) /\ pc' = "exited"
                /\ UNCHANGED <<c, cerr>>
           [] r = "err" ->
                /\ c' = "ctx" /\ cerr' = 1
                /\ Exit(EXIT_FAILURE) /\ pc' = "exited"
           [] r = "ok" ->
                /\ c' = "ctx" /\ cerr' = 0
                /\ pc' = "setglobal"
                /\ UNCHANGED exitCode
    /\ UNCHANGED <<handlers, global_redis_context, reader, global_consumer_state,
                   ctxFrees, readerFrees, enteredRunning, startup_reply>>
    /\ UNCHANGED argVars /\ UNCHANGED loopVars /\ UNCHANGED sigVars /\ UNCHANGED monitorVars

\* global_redis_context = c, consumer.c:249
SetGlobalContext ==
    /\ MainAt("setglobal")
    /\ global_redis_context' = c
    /\ pc' = "xgroup"
    /\ UNCHANGED <<handlers, c, cerr, reader, global_consumer_state, ctxFrees,
                   readerFrees, enteredRunning, startup_reply, exitCode>>
    /\ UNCHANGED argVars /\ UNCHANGED loopVars /\ UNCHANGED sigVars /\ UNCHANGED monitorVars

\* mutant: the result of redisCommand is not checked
CommandFailed_Unchecked(replyIsNull, err) == FALSE

\* mutant: the test is inverted
CommandFailed_Inverted(replyIsNull, err) == ~(replyIsNull \/ err # 0)

\* the test the code applies to the result of redisCommand,
\* consumer.c:142, 253, 270: reply == NULL || c->err
CommandFailed(replyIsNull, err) == replyIsNull \/ err # 0

\* what redisCommand can return on a blocking context: NULL with c->err set,
\* or a reply object (a status/array reply or an error reply) with c->err
\* untouched; with c->err already set it returns NULL
CommandOutcomes(err, replies) ==
    IF err # 0 THEN {"null"} ELSE replies \cup {"null"}

\* XGROUP CREATE ... MKSTREAM and its check, consumer.c:252-258
XGroupCreate ==
    /\ MainAt("xgroup")
    /\ \E r \in CommandOutcomes(cerr, {"ok", "busygroup", "error"}) :
         /\ cerr' = IF r = "null" THEN 1 ELSE cerr
         /\ startup_reply' = IF r = "null" THEN NULL ELSE r
         /\ pc' = IF CommandFailed(r = "null", cerr') THEN "xgroup_free" ELSE "reader"
    /\ UNCHANGED <<handlers, c, global_redis_context, reader, global_consumer_state,
                   ctxFrees, readerFrees, enteredRunning, exitCode>>
    /\ UNCHANGED argVars /\ UNCHANGED loopVars /\ UNCHANGED sigVars /\ UNCHANGED monitorVars

\* redisFree(c) on a startup failure path, consumer.c:255, 264, 272
FreeContextOnFailure ==
    /\ \E p \in {"xgroup_free", "reader_free", "subscribe_free"} :
         /\ MainAt(p)
         /\ pc' = CASE p = "xgroup_free" -> "fail_exit"
                    [] p = "reader_free" -> "fail_exit"
                    [] p = "subscribe_free" -> "subscribe_free_reader"
    /\ ctxFrees' = ctxFrees + 1
    /\ UNCHANGED <<handlers, c, cerr, global_redis_context, reader,
                   global_consumer_state, readerFrees, enteredRunning,
                   startup_reply, exitCode>>
    /\ UNCHANGED argVars /\ UNCHANGED loopVars /\ UNCHANGED sigVars /\ UNCHANGED monitorVars

\* exit(EXIT_FAILURE) on a startup failure path, consumer.c:256, 265, 274
ExitOnFailure ==
    /\ MainAt("fail_exit")
    /\ Exit(EXIT_FAILURE) /\ pc' = "exited"
    /\ UNCHANGED <<handlers, c, cerr, global_redis_context, reader,
                   global_consumer_state, ctxFrees, readerFrees, enteredRunning,
                   startup_reply>>
    /\ UNCHANGED argVars /\ UNCHANGED loopVars /\ UNCHANGED sigVars /\ UNCHANGED monitorVars

\* freeReplyObject(reply), redisReaderCreate and its check, consumer.c:258-263
CreateReader ==
    /\ MainAt("reader")
    /\ startup_reply' = NULL
    /\ \E ok \in BOOLEAN :
         /\ reader' = IF ok THEN "reader" ELSE NULL
         /\ pc' = IF ok THEN "subscribe" ELSE "reader_free"
    /\ UNCHANGED <<handlers, c, cerr, global_redis_context, global_consumer_state,
                   ctxFrees, readerFrees, enteredRunning, exitCode>>
    /\ UNCHANGED argVars /\ UNCHANGED loopVars /\ UNCHANGED sigVars /\ UNCHANGED monitorVars

\* SUBSCRIBE and what the code does with its first reply, consumer.c:269-282:
\* a reply that is no acknowledgment is only not printed
Subscribe ==
    /\ MainAt("subscribe")
    /\ \E r \in CommandOutcomes(cerr, {"ack", "othershape", "error"}) :
         /\ cerr' = IF r = "null" THEN 1 ELSE cerr
         /\ startup_reply' = IF r = "null" THEN NULL ELSE r
         /\ pc' = IF CommandFailed(r = "null", cerr') THEN "subscribe_free" ELSE "mkstate"
    /\ UNCHANGED <<handlers, c, global_redis_context, reader, global_consumer_state,
                   ctxFrees, readerFrees, enteredRunning, exitCode>>
    /\ UNCHANGED argVars /\ UNCHANGED loopVars /\ UNCHANGED sigVars /\ UNCHANGED monitorVars

\* redisReaderFree(reader) on the subscribe failure path, consumer.c:273
FreeReaderOnFailure ==
    /\ MainAt("subscribe_free_reader")
    /\ readerFrees' = readerFrees + 1
    /\ pc' = "fail_exit"
    /\ UNCHANGED <<handlers, c, cerr, global_redis_context, reader,
                   global_consumer_state, ctxFrees, enteredRunning,
                   startup_reply, exitCode>>
    /\ UNCHANGED argVars /\ UNCHANGED loopVars /\ UNCHANGED sigVars /\ UNCHANGED monitorVars

\* consumerState* createConsumerState(), consumer.c:50-56
createConsumerState == <<>>

\* freeReplyObject(reply), global_consumer_state = createConsumerState() and
\* the entry of while (1), consumer.c:282-291
CreateState ==
    /\ MainAt("mkstate")
    /\ startup_reply' = NULL
    /\ global_consumer_state' = "state"
    /\ processed_message_ids' = createConsumerState
    /\ enteredRunning' = TRUE
    /\ start_time' = time(clock)
    /\ processed_messages' = 0
    /\ calls' = <<clock>>
    /\ pc' = "read"
    /\ UNCHANGED <<handlers, c, cerr, global_redis_context, reader, ctxFrees,
                   readerFrees, exitCode, clock, reports>>
    /\ UNCHANGED argVars /\ UNCHANGED sigVars
    /\ UNCHANGED <<wire, arrived, rbuf, reply, parsed_message, json_msg, terminal, log>>

Startup ==
    \/ InstallHandlers \/ Connect \/ SetGlobalContext \/ XGroupCreate
    \/ FreeContextOnFailure \/ ExitOnFailure \/ CreateReader \/ Subscribe
    \/ FreeReaderOnFailure \/ CreateState

(* ------------------------------ run loop ------------------------------ *)
runVars == <<handlers, c, global_redis_context, reader, global_consumer_state,
             ctxFrees, readerFrees, enteredRunning, startup_reply, exitCode>>
quietVars == <<delivered, stateFrees>>

\* break out of while (1) into shutdown(0), the last statement of main,
\* consumer.c:319, 323, 326, 332
BreakToShutdown(t) ==
    /\ terminal' = t
    /\ pc' = "shutdown"
    /\ shstack' = <<"context">>

Min(a, b) == IF a < b THEN a ELSE b

\* the units of frame f as the broker writes them
UnitsOf(f) == [k \in 1 .. FrameUnits |-> [seq |-> f.seq, kind |-> f.kind, id |-> f.id, k |-> k]]

\* the broker writes one or two more frames to the subscribed connection;
\* only what is in the socket when main reads matters, so frames are added
\* while main is at read and the socket is empty
Arrive(max) ==
    /\ MainAt("read")
    /\ arrived < max
    /\ wire = <<>>
    /\ \E f \in FrameChoices, n \in 1 .. 2 :
         /\ arrived + n <= max
         /\ \E g \in (IF n = 1 THEN {f} ELSE FrameChoices) :
              wire' = UnitsOf([seq |-> arrived + 1, kind |-> f.kind, id |-> f.id])
                        \o (IF n = 1 THEN <<>>
                            ELSE UnitsOf([seq |-> arrived + 2, kind |-> g.kind, id |-> g.id]))
         /\ arrived' = arrived + n
    /\ UNCHANGED <<pc, cerr, processed_message_ids, rbuf, reply, parsed_message,
                   json_msg, terminal, log>>
    /\ UNCHANGED runVars /\ UNCHANGED argVars /\ UNCHANGED sigVars /\ UNCHANGED monitorVars

\* read(c->fd, messages, sizeof(messages)) returning n > 0 and
\* redisReaderFeed(reader, messages, n), consumer.c:295-298
ReadData ==
    /\ MainAt("read")
    /\ wire # <<>>
    /\ \E n \in 1 .. Min(Len(wire), MESSAGES_BUFFER_SIZE) :
         /\ rbuf' = rbuf \o SubSeq(wire, 1, n)
         /\ wire' = SubSeq(wire, n + 1, Len(wire))
    /\ pc' = "getreply"
    /\ UNCHANGED <<cerr, processed_message_ids, arrived, reply, parsed_message,
                   json_msg, terminal, log>>
    /\ UNCHANGED runVars /\ UNCHANGED argVars /\ UNCHANGED sigVars /\ UNCHANGED monitorVars

\* read returning 0 (peer closed) or a negative value (I/O error),
\* consumer.c:321-327
ReadEnd ==
    /\ MainAt("read")
    /\ \E t \in {"closed", "ioerror"} :
         /\ t = "closed" => wire = <<>>
         /\ BreakToShutdown(t)
    /\ UNCHANGED <<cerr, processed_message_ids, wire, arrived, rbuf, reply,
                   parsed_message, json_msg, log>>
    /\ UNCHANGED runVars /\ UNCHANGED argVars /\ UNCHANGED quietVars /\ UNCHANGED monitorVars

\* mutant: the newest complete frame of the buffer is handed out first
redisReaderGetReply_Newest(b) ==
    IF b # <<>> /\ Head(b).kind = "proto_err"
    THEN [res |-> "REDIS_ERR", reply |-> NoFrame, rest |-> b]
    ELSE IF Len(b) >= FrameUnits
    THEN LET n == (Len(b) \div FrameUnits) * FrameUnits
             u == b[n]
         IN [res |-> "REDIS_OK",
             reply |-> [seq |-> u.seq, kind |-> u.kind, id |-> u.id],
             rest |-> SubSeq(b, 1, n - FrameUnits) \o SubSeq(b, n + 1, Len(b))]
    ELSE [res |-> "REDIS_OK", reply |-> NoFrame, rest |-> b]

\* mutant: a frame is handed out as soon as its first unit is in the buffer
redisReaderGetReply_Eager(b) ==
    IF b # <<>> /\ Head(b).kind = "proto_err"
    THEN [res |-> "REDIS_ERR", reply |-> NoFrame, rest |-> b]
    ELSE IF b # <<>>
    THEN [res |-> "REDIS_OK",
          reply |-> [seq |-> Head(b).seq, kind |-> Head(b).kind, id |-> Head(b).id],
          rest |-> SubSeq(b, Min(Len(b), FrameUnits) + 1, Len(b))]
    ELSE [res |-> "REDIS_OK", reply |-> NoFrame, rest |-> b]

\* redisReaderGetReply on buffer b: REDIS_ERR on invalid bytes, else the first
\* complete frame (removed from the buffer), else no reply yet
redisReaderGetReply(b) ==
    IF b # <<>> /\ Head(b).kind = "proto_err"
    THEN [res |-> "REDIS_ERR", reply |-> NoFrame, rest |-> b]
    ELSE IF Len(b) >= FrameUnits
    THEN [res |-> "REDIS_OK",
          reply |-> [seq |-> Head(b).seq, kind |-> Head(b).kind, id |-> Head(b).id],
          rest |-> SubSeq(b, FrameUnits + 1, Len(b))]
    ELSE [res |-> "REDIS_OK", reply |-> NoFrame, rest |-> b]

\* reply->type == REDIS_REPLY_ARRAY && reply->elements >= 3, consumer.c:302
IsMessageFrame(f) == f.kind \in {"msg_id", "msg_noid", "msg_invalid"}

\* the single redisReaderGetReply call of one loop iteration and the dispatch
\* on its result, consumer.c:299-304, 316-320, 329
GetReply ==
    /\ MainAt("getreply")
    /\ LET r == redisReaderGetReply(rbuf) IN
         /\ rbuf' = r.rest
         /\ CASE r.res = "REDIS_ERR" ->
                   /\ BreakToShutdown("parseerror")
                   /\ UNCHANGED reply
              [] r.res = "REDIS_OK" /\ r.reply # NoFrame /\ IsMessageFrame(r.reply) ->
                   /\ pc' = "processMessage" /\ reply' = r.reply
                   /\ UNCHANGED <<terminal, shstack>>
              [] OTHER ->
                   /\ pc' = "read"
                   /\ UNCHANGED <<reply, terminal, shstack>>
    /\ UNCHANGED <<cerr, processed_message_ids, wire, arrived, parsed_message,
                   json_msg, log>>
    /\ UNCHANGED runVars /\ UNCHANGED argVars /\ UNCHANGED quietVars /\ UNCHANGED monitorVars

(* ---------------------------- dedup array ----------------------------- *)
\* int isMessageProcessed(const char *message_id), consumer.c:58-65.
\* strcmp equals only for an entry whose copy is NUL-terminated: an entry
\* without terminator runs on into the bytes behind it.
isMessageProcessed(ids, message_id) ==
    \E i \in 1 .. Len(ids) : ids[i].id = message_id /\ ids[i].nul

\* mutant: the id is stored without looking at the capacity
addProcessedMessage_Unbounded(ids, message_id, nul) ==
    Append(ids, [id |-> message_id, nul |-> nul])

\* void addProcessedMessage(const char *message_id), consumer.c:67-76.
\* strncpy(dst, message_id, strlen(message_id)) copies no terminator, so the
\* last byte of the malloc'ed copy is whatever the heap held: nul says
\* whether that byte happened to be 0.
addProcessedMessage(ids, message_id, nul) ==
    IF Len(ids) < MAX_PROCESSED_MSGS
    THEN Append(ids, [id |-> message_id, nul |-> nul])
    ELSE ids

(* --------------------------- processMessage --------------------------- *)
\* one entry of the history log:
\*  decodefail  parseMessage failed on frame seq; id is what the stack held
\*  lookup      isMessageProcessed(id) was called; ok is its result
\*  xadd        XADD was sent for id; ok iff the broker's reply came back
\*  add         addProcessedMessage(id) was called; ok iff id was stored
Event(ev, seq, id, ok) == [ev |-> ev, seq |-> seq, id |-> id, ok |-> ok]

\* int parseMessage(json_string, message), consumer.c:78-102: 0 iff the
\* payload is JSON with a string message_id
parseMessage(f) == IF f.kind = "msg_id" THEN 0 ELSE -1

\* json_loads(message, 0, &error) != NULL, consumer.c:108
json_loads(f) == f.kind \in {"msg_id", "msg_noid"}

\* processMessage up to the XADD, consumer.c:105-138: json_loads, parseMessage
\* (whose failure is only printed: parsed_message then keeps what the stack
\* held), the dedup lookup and json_dumps, which returns NULL for a NULL json_msg.
\* Where processMessage returns, main's consumer.c:306-316 follows.
ProcessMessageLookup ==
    /\ MainAt("processMessage")
    /\ \E stack \in StackValues :
         LET ok  == parseMessage(reply) = 0
             id  == IF ok THEN reply.id ELSE stack
             hit == isMessageProcessed(processed_message_ids, id)
             evs == (IF ok THEN <<>> ELSE <<Event("decodefail", reply.seq, id, FALSE)>>)
                      \o <<Event("lookup", reply.seq, id, hit)>>
         IN /\ ok => stack = Garbage    \* the stack is overwritten: one case
            /\ parsed_message' = id
            /\ json_msg' = json_loads(reply)
            /\ log' = log \o evs
            /\ IF hit \/ ~json_msg'
               THEN pc' = "read" /\ reply' = NoFrame /\ MonitorThroughput
               ELSE pc' = "xadd" /\ reply' = reply /\ UNCHANGED monitorVars
    /\ UNCHANGED <<cerr, processed_message_ids, wire, arrived, rbuf, terminal>>
    /\ UNCHANGED runVars /\ UNCHANGED argVars /\ UNCHANGED sigVars

\* redisCommand(c, "XADD ...") and its check, consumer.c:141-147
ProcessMessageXadd ==
    /\ MainAt("xadd")
    /\ \E r \in CommandOutcomes(cerr, {"ok", "error"}) :
         /\ cerr' = IF r = "null" THEN 1 ELSE cerr
         /\ log' = Append(log, Event("xadd", reply.seq, parsed_message, r # "null"))
         /\ IF CommandFailed(r = "null", cerr')
            THEN pc' = "read" /\ reply' = NoFrame /\ MonitorThroughput
            ELSE pc' = "commit" /\ reply' = reply /\ UNCHANGED monitorVars
    /\ UNCHANGED <<processed_message_ids, wire, arrived, rbuf, parsed_message,
                   json_msg, terminal>>
    /\ UNCHANGED runVars /\ UNCHANGED argVars /\ UNCHANGED sigVars

\* addProcessedMessage(parsed_message.message_id) and the return,
\* consumer.c:149-156
ProcessMessageCommit ==
    /\ MainAt("commit")
    /\ \E nul \in BOOLEAN :
         processed_message_ids' =
             addProcessedMessage(processed_message_ids, parsed_message, nul)
    /\ log' = Append(log, Event("add", reply.seq, parsed_message,
                                Len(processed_message_ids') > Len(processed_message_ids)))
    /\ pc' = "read"
    /\ reply' = NoFrame
    /\ MonitorThroughput
    /\ UNCHANGED <<cerr, wire, arrived, rbuf, parsed_message, json_msg, terminal>>
    /\ UNCHANGED runVars /\ UNCHANGED argVars /\ UNCHANGED sigVars

RunLoop ==
    \/ ReadData \/ ReadEnd \/ GetReply
    \/ ProcessMessageLookup \/ ProcessMessageXadd \/ ProcessMessageCommit

(* ------------------------------ shutdown ------------------------------ *)
keepVars == <<handlers, c, cerr, global_redis_context, reader, global_consumer_state,
              readerFrees, enteredRunning, startup_reply>>

\* SIGINT or SIGTERM is delivered: shutdown(signum) starts on top of whatever
\* runs. A signal stays blocked while its own handler runs, and shutdown
\* never returns, so each signal is delivered at most once.
Signal ==
    /\ exitCode = Running
    /\ handlers
    /\ \E s \in Signals \ delivered : delivered' = delivered \cup {s}
    /\ shstack' = Append(shstack, "context")
    /\ UNCHANGED <<pc, exitCode, ctxFrees, stateFrees>>
    /\ UNCHANGED keepVars /\ UNCHANGED argVars /\ UNCHANGED loopVars /\ UNCHANGED monitorVars

ShutdownAt(p) == exitCode = Running /\ shstack # <<>> /\ shstack[Len(shstack)] = p

Advance(p) == [shstack EXCEPT ![Len(shstack)] = p]

\* what free() of an already freed object can do: go unnoticed, or abort
DoubleFree(frees) ==
    IF frees = 0 THEN {Running} ELSE {Running, EXIT_ABORTED}

\* if (global_redis_context != NULL) redisFree(global_redis_context),
\* consumer.c:159-162
ShutdownContext ==
    /\ ShutdownAt("context")
    /\ shstack' = Advance("state")
    /\ IF global_redis_context # NULL
       THEN /\ ctxFrees' = ctxFrees + 1
            /\ exitCode' \in DoubleFree(ctxFrees)
       ELSE UNCHANGED <<ctxFrees, exitCode>>
    /\ UNCHANGED <<pc, delivered, stateFrees>>
    /\ UNCHANGED keepVars /\ UNCHANGED argVars /\ UNCHANGED loopVars /\ UNCHANGED monitorVars

\* if (global_consumer_state != NULL) freeConsumerState(global_consumer_state),
\* consumer.c:163-166
ShutdownState ==
    /\ ShutdownAt("state")
    /\ shstack' = Advance("exit")
    /\ IF global_consumer_state # NULL
       THEN /\ stateFrees' = stateFrees + 1
            /\ exitCode' \in DoubleFree(stateFrees)
       ELSE UNCHANGED <<stateFrees, exitCode>>
    /\ UNCHANGED <<pc, delivered, ctxFrees>>
    /\ UNCHANGED keepVars /\ UNCHANGED argVars /\ UNCHANGED loopVars /\ UNCHANGED monitorVars

\* exit(0), consumer.c:167
ShutdownExit ==
    /\ ShutdownAt("exit")
    /\ Exit(EXIT_SUCCESS)
    /\ UNCHANGED <<pc, shstack, delivered, ctxFrees, stateFrees>>
    /\ UNCHANGED keepVars /\ UNCHANGED argVars /\ UNCHANGED loopVars /\ UNCHANGED monitorVars

Shutdown == ShutdownContext \/ ShutdownState \/ ShutdownExit

\* the steps of the program itself
Program == ParseOption \/ EndOfOptions \/ Startup \/ RunLoop \/ Shutdown

\* the program with its whole environment: any command line, the broker's
\* frames, and SIGINT/SIGTERM at any moment
Next == Program \/ Arrive(MaxFrames) \/ Signal

Spec == Init /\ [][Next]_vars

\* the ids published while the clock runs: one message, published again
\* and again
ClockIds == {"a"}

\* the broker forwards one more published message (one with a message_id)
ArrivePublished(max) ==
    /\ MainAt("read")
    /\ arrived < max
    /\ wire = <<>>
    /\ \E id \in ClockIds :
         wire' = UnitsOf([seq |-> arrived + 1, kind |-> "msg_id", id |-> id])
    /\ arrived' = arrived + 1
    /\ UNCHANGED <<pc, cerr, processed_message_ids, rbuf, reply, parsed_message,
                   json_msg, terminal, log>>
    /\ UNCHANGED runVars /\ UNCHANGED argVars /\ UNCHANGED sigVars /\ UNCHANGED monitorVars

\* half a second passes. Main looks at the clock at consumer.c:288 and
\* consumer.c:308 only, so time is let pass before createConsumerState and
\* while main waits in read on an empty socket.
Tick ==
    /\ MainAt("mkstate") \/ (MainAt("read") /\ wire = <<>>)
    /\ clock < MaxClock
    /\ clock' = clock + 1
    /\ UNCHANGED <<pc, cerr, start_time, processed_messages, calls, reports>>
    /\ UNCHANGED loopVars /\ UNCHANGED runVars /\ UNCHANGED argVars /\ UNCHANGED sigVars

\* the program started with a valid identity (-g 2 -c 1) and never
\* signalled, under longer traffic
InitQuiet ==
    /\ Init
    /\ argv = <<[opt |-> "g", val |-> 2], [opt |-> "c", val |-> 1]>>

NextQuiet == Program \/ Arrive(MaxQuietFrames)

SpecQuiet == InitQuiet /\ [][NextQuiet]_vars

\* the same program, never signalled, receiving published messages while
\* the wall clock runs
NextClock == Program \/ ArrivePublished(MaxClockFrames) \/ Tick

SpecClock == InitQuiet /\ [][NextClock]_vars

(* ============================ properties ============================== *)
Events(ev) == {j \in 1 .. Len(log) : log[j].ev = ev}
Stored == {processed_message_ids[i].id : i \in 1 .. Len(processed_message_ids)}
\* the frames whose payload did not decode
Undecoded == {log[j].seq : j \in Events("decodefail")}

\* C1: every identifier in the dedup array was committed right after a
\* successful XADD of that identifier for the same frame: never before the
\* XADD, never after a failed one.
C1_CommitOnlyAfterPublish ==
    /\ \A j \in Events("add") :
         /\ j > 1
         /\ log[j - 1] = Event("xadd", log[j].seq, log[j].id, TRUE)
    /\ \A i \in 1 .. Len(processed_message_ids) :
         \E j \in Events("add") : log[j].ok /\ log[j].id = processed_message_ids[i].id
    /\ Len(processed_message_ids) = Cardinality({j \in Events("add") : log[j].ok})
    /\ pc = "commit" => log[Len(log)] = Event("xadd", reply.seq, parsed_message, TRUE)

\* C1 witness: an identifier is stored and a later publish has failed
C1_Witness ==
    /\ Len(processed_message_ids) >= 1
    /\ \E j \in Events("xadd") : ~log[j].ok

\* C2: once an identifier was stored, a later frame that carries it is looked
\* up as processed, causes no XADD and no further commit.
C2_StoredIdNeverAppendedAgain ==
    \A i \in {k \in Events("add") : log[k].ok} :
        \A j \in Events("lookup") \cup Events("xadd") \cup Events("add") :
            (i < j /\ log[j].id = log[i].id /\ log[j].seq # log[i].seq
                   /\ log[j].seq \notin Undecoded)
                => (log[j].ev = "lookup" /\ log[j].ok)

\* the frames processed so far all decoded, carried pairwise distinct
\* identifiers, and every XADD sent was answered
DistinctRun ==
    /\ Undecoded = {}
    /\ \A i, j \in Events("lookup") : log[i].id = log[j].id => i = j
    /\ \A j \in Events("xadd") : log[j].ok

\* C3: over frames with pairwise distinct identifiers whose publishes all
\* succeed, the lookup of each identifier is false before its publish and
\* true after it, and one XADD is sent per identifier.
C3_DistinctIdsPublishedOnce ==
    DistinctRun =>
        /\ \A j \in Events("lookup") : ~log[j].ok
        /\ \A j \in Events("add") :
             isMessageProcessed(processed_message_ids, log[j].id)
        /\ \A i, j \in Events("xadd") : log[i].id = log[j].id => i = j

LastXadd(x) ==
    LET S == {j \in Events("xadd") : log[j].id = x}
    IN IF S = {} THEN 0 ELSE CHOOSE j \in S : \A k \in S : k <= j

\* the most recent XADD of x got no reply
FailedLast(x) == LastXadd(x) # 0 /\ ~log[LastXadd(x)].ok

\* C4: a failed XADD leaves the dedup array as it was and the loop goes back
\* to read; an identifier whose last XADD failed is looked up as not
\* processed, and a later frame carrying it goes to XADD again.
C4_FailedPublishIsRetried ==
    /\ [][(log' # log /\ log'[Len(log')].ev = "xadd" /\ ~log'[Len(log')].ok)
            => (/\ processed_message_ids' = processed_message_ids
                /\ pc' = "read"
                /\ exitCode' = Running)]_vars
    /\ [](\A x \in StackValues :
            FailedLast(x) => ~isMessageProcessed(processed_message_ids, x))
    /\ [][(pc = "processMessage" /\ log' # log /\ parseMessage(reply) = 0
             /\ FailedLast(reply.id))
            => pc' = "xadd"]_vars

\* C4 witness: an XADD failed and a later frame with the same identifier was
\* sent to XADD again
C4_Witness ==
    \E i, j \in Events("xadd") :
        /\ i < j /\ ~log[i].ok
        /\ log[i].id = log[j].id /\ log[i].seq < log[j].seq
        /\ log[j].seq \notin Undecoded

\* C5: a frame whose payload does not decode causes no XADD and no commit.
C5_UndecodedFrameIsDropped ==
    \A j \in Events("xadd") \cup Events("add") : log[j].seq \notin Undecoded

\* C6: the dedup array never holds more than MAX_PROCESSED_MSGS entries, a
\* commit at capacity stores nothing, and every stored identifier is looked
\* up as processed.
C6_BoundedCache ==
    /\ Len(processed_message_ids) <= MAX_PROCESSED_MSGS
    /\ \A j \in Events("add") :
         ~log[j].ok => Len(processed_message_ids) = MAX_PROCESSED_MSGS
    /\ \A x \in Stored : isMessageProcessed(processed_message_ids, x)

\* positions of main on a startup failure path, where main itself frees
FailurePcs ==
    {"xgroup_free", "reader_free", "subscribe_free", "subscribe_free_reader",
     "fail_exit"}

\* C7: with two termination triggers (two activations of shutdown) the
\* context and the consumer state are each released once, with no double free.
C7_DoubleTriggerReleasesOnce ==
    (Len(shstack) >= 2 /\ pc \notin FailurePcs) =>
        /\ ctxFrees <= 1
        /\ stateFrees <= 1
        /\ exitCode # EXIT_ABORTED

\* the bounds of a consumer identity
ValidIdentity(groupSize, id) == groupSize > 0 /\ 0 < id /\ id <= groupSize

\* C8: a terminal condition of the run loop ends in shutdown, which releases
\* context and state, and exit status 0; a startup failure (an identity out
\* of bounds among them) ends with exit status 1 and the run loop is never
\* entered.
C8_ExitCodes ==
    /\ terminal # "none" => shstack # <<>>
    /\ (terminal # "none" /\ exitCode # Running) =>
         (exitCode = EXIT_SUCCESS /\ ctxFrees >= 1 /\ stateFrees >= 1)
    /\ enteredRunning => ValidIdentity(consumer_group_size, consumer_id)
    /\ (pc \in FailurePcs \/ exitCode = EXIT_FAILURE) => ~enteredRunning

\* C9: XADDs are sent in the order the frames arrived, one frame at a time.
C9_AppendsInArrivalOrder ==
    /\ \A i, j \in Events("xadd") : i < j => log[i].seq < log[j].seq
    /\ \A i, j \in Events("lookup") : i < j => log[i].seq < log[j].seq

\* C9 witness: frame 1 was sent to XADD, frame 2 is at its XADD, and bytes of
\* a third frame already wait in the reader's buffer
C9_Witness ==
    /\ pc = "xadd" /\ reply.seq = 2 /\ rbuf # <<>>
    /\ \E i \in Events("xadd") : log[i].seq = 1

\* C10: main gets past option parsing (and so to redisConnect) only with an
\* identity within bounds.
C10_ValidIdentityBeforeConnect ==
    (pc = "signal" \/ handlers \/ c # NULL) =>
        ValidIdentity(consumer_group_size, consumer_id)

\* C11: group initialisation goes on to the reader and the subscription only
\* after a reply that says the group was created or already exists; an error
\* reply of any other kind never reaches the subscription.
C11_GroupErrorIsFatal ==
    pc = "reader" => startup_reply \in {"ok", "busygroup"}

\* C12: the dedup state is created and the run loop entered only after the
\* first subscription reply was the acknowledgment array naming the channel.
C12_AckBeforeRunning ==
    pc = "mkstate" => startup_reply = "ack"

\* C13: when a startup failure has ended the process with status 1, the
\* context and the reader that were allocated have each been released
\* exactly once.
C13_FailedStartupReleasesAll ==
    exitCode = EXIT_FAILURE =>
        /\ c # NULL => ctxFrees = 1
        /\ reader # NULL => readerFrees = 1

\* the reports the rule of the specification yields for the returns
\* ts[k], ts[k+1], ... of processMessage, with count messages so far in the
\* window that started at second windowStart
RECURSIVE Evaluate(_, _, _, _)
Evaluate(ts, k, windowStart, count) ==
    IF k > Len(ts) THEN <<>>
    ELSE LET now == ts[k] \div TicksPerSecond
         IN IF now - windowStart >= REPORT_PERIOD
            THEN <<[at |-> ts[k], rate |-> (count + 1) \div REPORT_PERIOD]>>
                     \o Evaluate(ts, k + 1, now, 0)
            ELSE Evaluate(ts, k + 1, windowStart, count + 1)

\* the frames handed to processMessage that have come back from it
Handled ==
    Cardinality(Events("lookup")) - (IF pc \in {"xadd", "commit"} THEN 1 ELSE 0)

\* the ticks at which messages arrive in the example: t = 0, 1, 2, 3.5 s
ExampleTicks == <<0, TicksPerSecond, 2 * TicksPerSecond, 3 * TicksPerSecond + 1>>

FollowsOnWire(u, v) ==
    IF u.k < FrameUnits
    THEN v.seq = u.seq /\ v.k = u.k + 1 /\ v.kind = u.kind /\ v.id = u.id
    ELSE v.seq = u.seq + 1 /\ v.k = 1

\* the step in which main comes back from redisReaderGetReply
GetReplyReturns == pc = "getreply" /\ pc' # "getreply" /\ shstack' = <<>>

C16_BufferDrainedBeforeRead ==
    MainAt("read") => Len(rbuf) < FrameUnits

\* the message frames that were forwarded: the XADD got its reply and the id
\* was passed to addProcessedMessage
Forwarded == Events("add")

\* C17: the throughput counter counts forwarded messages only: while no
\* report has reset it, it equals the number of messages forwarded.
C17_CounterCountsForwardedOnly ==
    reports = <<>> => processed_messages = Cardinality(Forwarded)

\* in the run loop, a shutdown() activation started by a signal has released
\* the connection context or the consumer state
SignalReleased ==
    enteredRunning /\ terminal = "none" /\ (ctxFrees > 0 \/ stateFrees > 0)

\* C18: in the run loop a termination signal is acted on only at a check
\* point of the loop (main at the top of an iteration or just back from a
\* completed read): nothing is released while a frame is being processed.
C18_SignalOnlyAtCheckPoints ==
    SignalReleased => pc \in {"read", "getreply"}

\* C19 as stated: the id of a message is in the dedup array afterwards if and
\* only if its XADD got a reply and the connection reported no error.
C19_CommittedIffReply ==
    \A j \in Events("xadd") :
        (j < Len(log) \/ pc = "read") =>
            (log[j].ok <=>
                (j < Len(log) /\ log[j + 1].ev = "add" /\ log[j].id \in Stored))

\* C19: a publish counts as successful, and its id is passed to
\* addProcessedMessage, if and only if the XADD got a reply and the
\* connection reported no error; that call stores the id unless the array
\* already holds MAX_PROCESSED_MSGS ids. After any other outcome nothing is
\* stored and addProcessedMessage is not called.
C19_CommitIffReplyBelowCapacity ==
    /\ Len(processed_message_ids) <= MAX_PROCESSED_MSGS
    /\ \A j \in Events("xadd") :
         /\ (pc = "commit" /\ j = Len(log)) => log[j].ok
         /\ (j < Len(log) \/ pc = "read") =>
              (log[j].ok <=> (j < Len(log) /\ log[j + 1].ev = "add"))
    /\ \A j \in Events("add") :
         log[j].ok <=>
             Cardinality({i \in Events("add") : i < j /\ log[i].ok}) < MAX_PROCESSED_MSGS
    /\ Len(processed_message_ids) = Cardinality({j \in Events("add") : log[j].ok})

\* processMessage has returned from a replied XADD whose id was passed to
\* addProcessedMessage and not stored because the array was full
C19_Witness ==
    /\ pc = "read"
    /\ Len(processed_message_ids) = MAX_PROCESSED_MSGS
    /\ Len(log) > 1
    /\ log[Len(log)].ev = "add" /\ ~log[Len(log)].ok
    /\ log[Len(log) - 1].ev = "xadd" /\ log[Len(log) - 1].ok

\* C20: whenever signals arrive, the connection context and the consumer
\* state are each released at most once, and the process never dies of
\* releasing one twice.
C20_ReleasedAtMostOnce ==
    /\ ctxFrees <= 1
    /\ stateFrees <= 1
    /\ exitCode # EXIT_ABORTED

====
